---- MODULE Spec2Model ----
(***************************************************************************)
(* Emergency detection and escalation of the Rapid Rescue client           *)
(* (src/src/App.tsx) and the incident endpoint of its server               *)
(* (src/unnamed/part_000).                                                 *)
(*                                                                         *)
(* The App component is a set of React state cells and one ref.  Event     *)
(* handlers run to completion on one thread; what interleaves is the       *)
(* order of events: sensor samples, the passive effect that re-subscribes  *)
(* the devicemotion handler, interval ticks, clicks, and the answers of    *)
(* the geolocation, hospital lookup and incident requests.  A handler      *)
(* registered by an earlier render keeps the values it closed over, so     *)
(* the model stores with every registered callback the state it captured.  *)
(*                                                                         *)
(* Times are milliseconds, accelerations are thousandths of m/s^2.         *)
(***************************************************************************)
EXTENDS Integers, Naturals, Sequences, FiniteSets, TLC

(* ---------------------------- bounds ----------------------------------- *)
\* countdowns started plus escalations invoked in one behaviour
MaxActivations == 2
\* clock steps taken in one behaviour
MaxClockSteps == 1
\* ticks of one countdown, in the behaviours that follow the user through the pages
MaxTicks == 1

(* ------------------------ program constants ---------------------------- *)
\* App.tsx:183  totalAcc > 25  (here in thousandths of m/s^2)
JerkThreshold == 25000
\* App.tsx:183  Date.now() - lastJerk > 5000
JerkCooldown == 5000
\* App.tsx:92, 195  useState(60), setCountdown(60)
CountdownStart == 60
\* App.tsx:94  useState<number>(0)
InitialLastJerk == 0
\* App.tsx:93  location === null
NoLocation == 0
\* App.tsx:219  let lat = 0, lng = 0
Placeholder == 0
\* App.tsx:99  timerRef.current === null
NoTimer == 0
\* App.tsx:178, 180  a missing accelerationIncludingGravity or component
Null == -1000000

\* the value of Date.now() when the component mounts: an epoch time, far
\* above the cooldown, so the first sample always passes the time test
MountTime == JerkCooldown + 1
\* amounts by which the clock moves between two events
ClockSteps == {JerkCooldown, JerkCooldown + 1}
\* the position fixes the platform can report
Positions == {1, 2}
\* event.accelerationIncludingGravity of the samples delivered
Samples ==
  { << Null, Null, Null, FALSE >>,     \* no accelerationIncludingGravity
    << 0, 0, 9810, TRUE >>,            \* at rest
    << 15000, 20000, 0, TRUE >>,       \* magnitude exactly 25
    << 15000, 20000, 1, TRUE >>,       \* just above 25
    << Null, 0, 25001, TRUE >> }       \* a missing component, above 25

(* ------------------------------ strings -------------------------------- *)
\* A string is a sequence of pieces: the characters of a name, and the fixed
\* pieces of a template or an answer as one piece each.
Asha == << "a", "s", "h", "a" >>
\* the names typed into the name field
Names == { Asha, << "a", "5" >> }
\* the rows the contacts table can hold when the page loads
OneContact == << [name |-> "Ravi", phone |-> "9999999999"] >>
ContactLists == { << >>, OneContact }
\* App.tsx:1002-1016  what ai.models.generateContent does: it throws, or it
\* answers with a text and grounding chunks
Throws == [kind |-> "throws"]
ThreeFound ==
  [kind |-> "answer", text |-> << "3 hospitals found" >>,
   chunks |-> << [title |-> "City Hospital", uri |-> "maps/1", phone |-> "108"],
                 [title |-> "No Map", uri |-> "", phone |-> ""],
                 [title |-> "Apollo", uri |-> "maps/2", phone |-> ""] >>]
Lookups == { Throws, ThreeFound }

VARIABLES
  now,                \* Date.now()
  clockSteps,         \* clock steps taken so far
  isMonitoring,       \* App.tsx:90
  showSafetyCheck,    \* App.tsx:91
  countdown,          \* App.tsx:92
  location,           \* App.tsx:93
  lastJerk,           \* App.tsx:94
  emergencyTriggered, \* App.tsx:95
  hospitalInfo,       \* App.tsx:96-97, the last lookup result shown
  timerRef,           \* App.tsx:99
  timers,             \* the intervals setInterval has created and not cleared
  listeners,          \* the devicemotion listeners registered on window
  effectDeps,         \* [isMonitoring, lastJerk] of the last run of the effect
  effectCleanup,      \* the listeners the effect's cleanup will remove
  pendingCaptures,    \* getCurrentPosition calls of triggerSafetyCheck not yet answered
  runs,               \* the invocations of triggerEmergency, in order
  requests,           \* POST /api/incidents requests not yet served
  responses,          \* runs whose POST was served and not yet resumed
  incidents,          \* rows of the incidents table
  starts,             \* countdowns started so far; the last one is the current instance
  ticks,              \* ticks delivered by the interval of the current instance
  startedBy,          \* what started the current instance: "jerk" or "test"
  safed,              \* countdown instances resolved by I AM SAFE
  limits,             \* the bounds and inputs of the behaviour; never changes
  capturedIn,         \* the countdown instance during which location was last set
  sent,               \* what the escalations wrote to the console, one entry per run
  view,               \* App.tsx:74
  userName,           \* App.tsx:87
  contacts,           \* App.tsx:88
  contactsDb,         \* rows of the contacts table
  alertOpen,          \* the message of the window.alert dialog that is open, or NoAlert
  isAdminAuthenticated,   \* App.tsx:75
  adminStep,              \* App.tsx:76
  isBiometricSupported,   \* App.tsx:77
  hasEnrolledFingerprint, \* App.tsx:78
  adminUsername,          \* App.tsx:79
  securityCode,           \* App.tsx:86
  fingerprintDb,          \* admins.fingerprint_id of the seeded admin
  scans,                  \* the biometric timeouts set and not yet fired
  passed                  \* the checks that succeeded since the page loaded

\* the state of detection, countdown and escalation
coreVars == << now, clockSteps, isMonitoring, showSafetyCheck, countdown, location,
               lastJerk, emergencyTriggered, hospitalInfo, timerRef, timers,
               listeners, effectDeps, effectCleanup, pendingCaptures, runs,
               requests, responses, incidents, starts, ticks, startedBy, safed,
               capturedIn, sent >>
\* the state of the user's pages
pageVars == << view, userName, contacts, contactsDb, alertOpen >>
\* the state of the admin gate
adminVars == << isAdminAuthenticated, adminStep, isBiometricSupported,
                hasEnrolledFingerprint, adminUsername, securityCode, fingerprintDb,
                scans, passed >>

vars == << coreVars, pageVars, adminVars, limits >>

\* no lookup result yet
NoResult == [kind |-> "none", text |-> << >>, links |-> << >>]
\* no window.alert dialog is open
NoAlert == "none"
\* App.tsx:311, 337  the id the simulated scan always produces
BiometricId == "valid-biometric-123"
\* part_000:18  fingerprint_id of an admin who never enrolled
NoFingerprint == "null"

Mounted ==
  /\ now = MountTime
  /\ clockSteps = 0
  /\ isMonitoring = FALSE
  /\ showSafetyCheck = FALSE
  /\ countdown = CountdownStart
  /\ location = NoLocation
  /\ lastJerk = InitialLastJerk
  /\ emergencyTriggered = FALSE
  /\ hospitalInfo = NoResult
  /\ timerRef = NoTimer
  /\ timers = {}
  /\ listeners = {}
  /\ effectDeps = << FALSE, InitialLastJerk >>
  /\ effectCleanup = {}
  /\ pendingCaptures = 0
  /\ runs = << >>
  /\ requests = {}
  /\ responses = {}
  /\ incidents = << >>
  /\ starts = 0
  /\ ticks = 0
  /\ startedBy = "none"
  /\ safed = {}
  /\ capturedIn = 0
  /\ sent = << >>
  /\ view = "landing"
  /\ userName = << >>
  /\ contacts = << >>
  /\ alertOpen = NoAlert
  /\ isAdminAuthenticated = FALSE
  /\ adminStep = "1"
  /\ isBiometricSupported = FALSE
  /\ hasEnrolledFingerprint = FALSE
  /\ adminUsername = ""
  /\ securityCode = ""
  /\ scans = {}
  /\ passed = {}

\* the state after the first render, with the bounds as named: no contact in
\* the table, one position, a lookup that answers or throws, and countdowns
\* that may run to their end
Init ==
  /\ Mounted
  /\ contactsDb = << >>
  /\ fingerprintDb = NoFingerprint
  /\ limits = [activations |-> MaxActivations, clockSteps |-> MaxClockSteps,
               ticks |-> CountdownStart, names |-> {Asha}, positions |-> {1},
               lookups |-> {ThreeFound, Throws}]

\* the same state, with the bounds one higher
InitWide ==
  /\ Mounted
  /\ contactsDb = << >>
  /\ fingerprintDb = NoFingerprint
  /\ limits = [activations |-> MaxActivations + 1, clockSteps |-> MaxClockSteps + 1,
               ticks |-> CountdownStart, names |-> {Asha}, positions |-> {1},
               lookups |-> {ThreeFound, Throws}]

\* the state after the first render, with any of the contact tables, names,
\* positions and lookup answers, and countdowns resolved within MaxTicks ticks
InitApp ==
  /\ Mounted
  /\ contactsDb \in ContactLists
  /\ fingerprintDb = NoFingerprint
  /\ limits = [activations |-> MaxActivations, clockSteps |-> 0,
               ticks |-> MaxTicks, names |-> Names, positions |-> Positions,
               lookups |-> Lookups]

\* the state after the first render, with a contact in the table and
\* countdowns that may run to their end
InitLong ==
  /\ Mounted
  /\ contactsDb = OneContact
  /\ fingerprintDb = NoFingerprint
  /\ limits = [activations |-> MaxActivations, clockSteps |-> 0,
               ticks |-> CountdownStart, names |-> {Asha}, positions |-> {1},
               lookups |-> {ThreeFound}]

\* the state after the first render, with room for a countdown that is
\* restarted and then escalated
InitFair ==
  /\ Mounted
  /\ contactsDb = << >>
  /\ fingerprintDb = NoFingerprint
  /\ limits = [activations |-> MaxActivations + 1, clockSteps |-> MaxClockSteps,
               ticks |-> CountdownStart, names |-> {Asha}, positions |-> {1},
               lookups |-> {ThreeFound, Throws}]

\* the state after the first render, with an admin who has or has not enrolled
InitAdmin ==
  /\ Mounted
  /\ contactsDb = << >>
  /\ fingerprintDb \in {NoFingerprint, BiometricId}
  /\ limits = [activations |-> 0, clockSteps |-> 0, ticks |-> 0, names |-> {},
               positions |-> {}, lookups |-> {}]

(* ------------------------------ helpers -------------------------------- *)
\* what the functions of the current render close over
CurrentEnv == [location |-> location, userName |-> userName, contacts |-> contacts]

\* whether the page runs its handlers: window.alert blocks it until dismissed
ready == alertOpen = NoAlert
\* whether the page behind the modals can be clicked: both modals cover it
uncovered == ~showSafetyCheck /\ ~emergencyTriggered

\* String.prototype.toUpperCase, for the characters of the names used
Upper(c) == CASE c = "a" -> "A" [] c = "s" -> "S" [] c = "h" -> "H" [] OTHER -> c
toUpperCase(s) == [k \in 1..Len(s) |-> Upper(s[k])]
\* /^[a-zA-Z\s]+$/.test(s)
lettersOnly(s) ==
  /\ s # << >>
  /\ \A k \in 1..Len(s) : s[k] \in {"a", "s", "h", "A", "S", "H", " "}
\* s.trim() is not the empty string
notBlank(s) == \E k \in 1..Len(s) : s[k] # " "

\* App.tsx:1021  chunk.maps?.uri
hasUri(chunk) == chunk.uri # ""
\* App.tsx:1020-1026  the links made of the grounding chunks
linksOf(chunks) ==
  LET kept == SelectSeq(chunks, hasUri)
  IN [k \in 1..Len(kept) |->
        [title |-> kept[k].title, uri |-> kept[k].uri,
         phone |-> IF kept[k].phone = "" THEN "N/A" ELSE kept[k].phone]]
\* the text findNearbyHospitals returns when the lookup threw
FallbackText == << "Could not retrieve hospital information due to an error." >>
\* findNearbyHospitals that lets the error of the lookup reach its caller
findNearbyHospitalsRaising(r) ==
  IF r.kind = "throws"
    THEN [kind |-> "raised", text |-> << >>, links |-> << >>]
    ELSE [kind |-> "result",
          text |-> IF r.text = << >> THEN << "No hospital information found." >> ELSE r.text,
          links |-> linksOf(r.chunks)]
\* findNearbyHospitals, for the outcome r of generateContent
findNearbyHospitals(r) ==
  IF r.kind = "throws"
    THEN [kind |-> "result", text |-> FallbackText, links |-> << >>]
    ELSE [kind |-> "result",
          text |-> IF r.text = << >> THEN << "No hospital information found." >> ELSE r.text,
          links |-> linksOf(r.chunks)]

\* App.tsx:234  locationLink
locationLink(lat) == << "https://www.google.com/maps?q=", ToString(lat) >>
\* App.tsx:235  emergencyMessage
emergencyMessage(name, lat) ==
  toUpperCase(name) \o << " IS IN EMERGENCY", ". Location: " >> \o locationLink(lat)
\* App.tsx:238-241  the messages to the contacts
smsTo(cs, name, lat) ==
  [k \in 1..Len(cs) |-> [to |-> cs[k].phone, message |-> emergencyMessage(name, lat)]]
\* App.tsx:244-248  the alerts to the hospitals
ambulanceFor(links, name, lat) ==
  [k \in 1..Len(links) |->
     [hospital |-> links[k].title, phone |-> links[k].phone,
      message |-> << "EMERGENCY: Accident detected at " >> \o locationLink(lat)
                    \o << ". Ambulance requested for " >> \o name \o << "." >>]]
\* App.tsx:256  details of the incident request
detailsOf(name, lat, text) ==
  << "Emergency triggered for " >> \o name \o << ". " >> \o emergencyMessage(name, lat)
    \o << ". Nearby hospitals: " >> \o text

\* acc.x || 0
Comp(v) == IF v = Null THEN 0 ELSE v

\* totalAcc * totalAcc, for totalAcc = Math.sqrt(x ** 2 + y ** 2 + z ** 2)
totalAccSquared(acc) ==
  Comp(acc[1]) * Comp(acc[1]) + Comp(acc[2]) * Comp(acc[2]) + Comp(acc[3]) * Comp(acc[3])

\* the test with >= in place of > on the magnitude
jerkDetectedAtThreshold(acc, readLastJerk) ==
  /\ totalAccSquared(acc) >= JerkThreshold * JerkThreshold
  /\ now - readLastJerk > JerkCooldown

\* totalAcc > 25 && Date.now() - lastJerk > 5000, with the lastJerk the handler reads
jerkDetected(acc, readLastJerk) ==
  /\ totalAccSquared(acc) > JerkThreshold * JerkThreshold
  /\ now - readLastJerk > JerkCooldown

\* whether one more countdown or escalation may start in this behaviour
withinBounds == starts + Len(runs) < limits.activations

\* clearInterval(id)
clearInterval(id) == { t \in timers : t.id # id }

\* the updater's test with the counter let reach 0 before it expires
expiredAtZero(prev) == prev <= 0

\* the body of the updater passed to setCountdown by the interval callback
expired(prev) == prev <= 1

(* --------------------------- the handlers ------------------------------ *)
\* triggerSafetyCheck without the clearInterval of the previous interval
triggerSafetyCheckKeepingInterval(env) ==
  /\ withinBounds
  /\ showSafetyCheck' = TRUE
  /\ countdown' = CountdownStart
  /\ pendingCaptures' = pendingCaptures + 1
  /\ timers' = timers \cup {[id |-> starts + 1, env |-> env]}
  /\ timerRef' = starts + 1
  /\ starts' = starts + 1
  /\ ticks' = 0

\* triggerSafetyCheck of a render whose triggerEmergency closes over env
triggerSafetyCheck(env) ==
  /\ withinBounds
  /\ showSafetyCheck' = TRUE
  /\ countdown' = CountdownStart
  /\ pendingCaptures' = pendingCaptures + 1
  /\ timers' = (IF timerRef # NoTimer THEN clearInterval(timerRef) ELSE timers)
                  \cup {[id |-> starts + 1, env |-> env]}
  /\ timerRef' = starts + 1
  /\ starts' = starts + 1
  /\ ticks' = 0

\* triggerEmergency that goes on with the placeholder when no location was captured
triggerEmergencyWithoutFix(env, inst, src) ==
  /\ withinBounds
  /\ emergencyTriggered' = TRUE
  /\ showSafetyCheck' = FALSE
  /\ runs' = Append(runs,
       [pc |-> "hospitals",
        lat |-> IF env.location # NoLocation THEN env.location ELSE Placeholder,
        inst |-> inst, src |-> src, env |-> env, result |-> NoResult])

\* the synchronous part of triggerEmergency, up to its first await
triggerEmergency(env, inst, src) ==
  /\ withinBounds
  /\ emergencyTriggered' = TRUE
  /\ showSafetyCheck' = FALSE
  /\ runs' = Append(runs,
       IF env.location # NoLocation
         THEN [pc |-> "hospitals", lat |-> env.location, inst |-> inst, src |-> src,
               env |-> env, result |-> NoResult]
         ELSE [pc |-> "location", lat |-> Placeholder, inst |-> inst, src |-> src,
               env |-> env, result |-> NoResult])

\* time passes between two events.  Only handleMotion reads the clock, and until
\* a jerk has fired its time test passes at any time (lastJerk is 0, Date.now()
\* an epoch time): time is let pass once a jerk has fired, and while a later
\* countdown can still start
AdvanceClock ==
  /\ clockSteps < limits.clockSteps
  /\ lastJerk # InitialLastJerk /\ withinBounds
  /\ \E d \in ClockSteps : now' = now + d
  /\ clockSteps' = clockSteps + 1
  /\ UNCHANGED << isMonitoring, showSafetyCheck, countdown, location, lastJerk,
                  emergencyTriggered, hospitalInfo, timerRef, timers, listeners,
                  effectDeps, effectCleanup, pendingCaptures, runs, requests,
                  responses, incidents, starts, ticks, startedBy, safed, limits,
                  capturedIn, sent, pageVars, adminVars >>

\* App.tsx:121-123  what the platform answers to getCurrentPosition
GeoAnswers == {"fix", "denied"}
\* App.tsx:126-127  what the motion permission request does
MotionAnswers == {"granted", "denied", "default", "unsupported", "rejected"}

\* what requestPermissions returns, for the answers of the geolocation request
\* ("fix" or "denied") and of the motion permission request ("unsupported":
\* DeviceMotionEvent.requestPermission is no function; "rejected": it throws)
permissionGranted(geo, motion) == motion \in {"granted", "unsupported"}

\* the message of App.tsx:129
MotionAlert == "Motion sensor access is required for accident detection."

\* requestPermissions that starts monitoring before it asks for the motion permission
requestPermissionsMonitoringFirst(geo, motion) ==
  /\ isMonitoring' = TRUE
  /\ alertOpen' = IF motion \notin {"granted", "unsupported", "rejected"} THEN MotionAlert ELSE alertOpen

\* requestPermissions: both callbacks of getCurrentPosition resolve the promise
\* and its result is not read
requestPermissions(geo, motion) ==
  /\ isMonitoring' = (isMonitoring \/ permissionGranted(geo, motion))
  /\ alertOpen' = IF motion \notin {"granted", "unsupported", "rejected"} THEN MotionAlert ELSE alertOpen

\* START PROTECT on the landing view
handleStartProtect(geo, motion) ==
  /\ ready /\ uncovered
  /\ view = "landing"
  /\ requestPermissions(geo, motion)
  /\ view' = IF permissionGranted(geo, motion) THEN "user_login" ELSE view
  /\ UNCHANGED << now, clockSteps, showSafetyCheck, countdown, location, lastJerk,
                  emergencyTriggered, hospitalInfo, timerRef, timers, listeners,
                  effectDeps, effectCleanup, pendingCaptures, runs, requests,
                  responses, incidents, starts, ticks, startedBy, safed, limits,
                  capturedIn, sent, userName, contacts, contactsDb, adminVars >>

\* the effect without the removeEventListener of its cleanup
jerkEffectWithoutCleanup ==
  LET subscription == IF isMonitoring
                        THEN {[lastJerk |-> lastJerk, env |-> CurrentEnv]}
                        ELSE {}
  IN
  /\ ready
  /\ << isMonitoring, lastJerk >> # effectDeps
  /\ effectDeps' = << isMonitoring, lastJerk >>
  /\ listeners' = listeners \cup subscription
  /\ effectCleanup' = subscription
  /\ UNCHANGED << now, clockSteps, isMonitoring, showSafetyCheck, countdown,
                  location, lastJerk, emergencyTriggered, hospitalInfo, timerRef,
                  timers, pendingCaptures, runs, requests, responses, incidents,
                  starts, ticks, startedBy, safed, limits,
                  capturedIn, sent, pageVars, adminVars >>

\* the jerk detection effect after a render that changed isMonitoring or lastJerk:
\* the cleanup of the previous run, then the new subscription
jerkEffect ==
  LET subscription == IF isMonitoring
                        THEN {[lastJerk |-> lastJerk, env |-> CurrentEnv]}
                        ELSE {}
  IN
  /\ ready
  /\ << isMonitoring, lastJerk >> # effectDeps
  /\ effectDeps' = << isMonitoring, lastJerk >>
  /\ listeners' = (listeners \ effectCleanup) \cup subscription
  /\ effectCleanup' = subscription
  /\ UNCHANGED << now, clockSteps, isMonitoring, showSafetyCheck, countdown,
                  location, lastJerk, emergencyTriggered, hospitalInfo, timerRef,
                  timers, pendingCaptures, runs, requests, responses, incidents,
                  starts, ticks, startedBy, safed, limits,
                  capturedIn, sent, pageVars, adminVars >>

\* a devicemotion event delivered to listener l
handleMotion(l, acc) ==
  /\ ready
  /\ l \in listeners
  /\ IF acc[4] /\ jerkDetected(acc, l.lastJerk)
       THEN /\ lastJerk' = now
            /\ triggerSafetyCheck(l.env)
            /\ startedBy' = "jerk"
            /\ UNCHANGED << now, clockSteps, isMonitoring, location,
                            emergencyTriggered, hospitalInfo, listeners, effectDeps,
                            effectCleanup, runs, requests, responses, incidents,
                            safed, limits,
                  capturedIn, sent, pageVars, adminVars >>
       ELSE UNCHANGED vars

\* one firing of the interval t
tick(t) ==
  /\ ready
  /\ t \in timers
  /\ ticks < limits.ticks
  /\ ticks' = IF t.id = starts THEN ticks + 1 ELSE ticks
  /\ IF expired(countdown)
       THEN /\ timers' = clearInterval(timerRef)
            /\ triggerEmergency(t.env, t.id, "expiry")
            /\ countdown' = 0
       ELSE /\ countdown' = countdown - 1
            /\ UNCHANGED << timers, emergencyTriggered, showSafetyCheck, runs >>
  /\ UNCHANGED << now, clockSteps, isMonitoring, location, lastJerk, hospitalInfo,
                  timerRef, listeners, effectDeps, effectCleanup, pendingCaptures,
                  requests, responses, incidents, starts, startedBy, safed, limits,
                  capturedIn, sent, pageVars, adminVars >>

\* I AM SAFE without the clearInterval
handleIAmSafeKeepingInterval ==
  /\ ready
  /\ showSafetyCheck /\ ~emergencyTriggered
  /\ showSafetyCheck' = FALSE
  /\ safed' = safed \cup {starts}
  /\ UNCHANGED << now, clockSteps, isMonitoring, countdown, location, lastJerk,
                  emergencyTriggered, hospitalInfo, timerRef, timers, listeners,
                  effectDeps, effectCleanup, pendingCaptures, runs, requests,
                  responses, incidents, starts, ticks, startedBy, limits,
                  capturedIn, sent, pageVars, adminVars >>

\* I AM SAFE
handleIAmSafe ==
  /\ ready
  /\ showSafetyCheck /\ ~emergencyTriggered
  /\ showSafetyCheck' = FALSE
  /\ timers' = IF timerRef # NoTimer THEN clearInterval(timerRef) ELSE timers
  /\ safed' = safed \cup {starts}
  /\ UNCHANGED << now, clockSteps, isMonitoring, countdown, location, lastJerk,
                  emergencyTriggered, hospitalInfo, timerRef, listeners, effectDeps,
                  effectCleanup, pendingCaptures, runs, requests, responses,
                  incidents, starts, ticks, startedBy, limits,
                  capturedIn, sent, pageVars, adminVars >>

\* TRIGGER NOW
triggerNow ==
  /\ ready
  /\ showSafetyCheck /\ ~emergencyTriggered
  /\ triggerEmergency(CurrentEnv, starts, "force")
  /\ UNCHANGED << now, clockSteps, isMonitoring, countdown, location, lastJerk,
                  hospitalInfo, timerRef, timers, listeners, effectDeps,
                  effectCleanup, pendingCaptures, requests, responses, incidents,
                  starts, ticks, startedBy, safed, limits,
                  capturedIn, sent, pageVars, adminVars >>

\* SIMULATE ACCIDENT (TEST), on the main view
simulateAccident ==
  /\ ready /\ uncovered
  /\ view = "main"
  /\ triggerSafetyCheck(CurrentEnv)
  /\ startedBy' = "test"
  /\ UNCHANGED << now, clockSteps, isMonitoring, location, lastJerk,
                  emergencyTriggered, hospitalInfo, listeners, effectDeps,
                  effectCleanup, runs, requests, responses, incidents, safed,
                  limits, capturedIn, sent, pageVars, adminVars >>

\* DISMISS that also abandons the escalations that have not returned
dismissCancelling ==
  /\ ready
  /\ emergencyTriggered
  /\ emergencyTriggered' = FALSE
  /\ runs' = [i \in 1..Len(runs) |->
                IF runs[i].pc = "done" THEN runs[i] ELSE [runs[i] EXCEPT !.pc = "stalled"]]
  /\ UNCHANGED << now, clockSteps, isMonitoring, showSafetyCheck, countdown,
                  location, lastJerk, hospitalInfo, timerRef, timers, listeners,
                  effectDeps, effectCleanup, pendingCaptures, requests,
                  responses, incidents, starts, ticks, startedBy, safed, limits,
                  capturedIn, sent, pageVars, adminVars >>

\* DISMISS
dismiss ==
  /\ ready
  /\ emergencyTriggered
  /\ emergencyTriggered' = FALSE
  /\ UNCHANGED << now, clockSteps, isMonitoring, showSafetyCheck, countdown,
                  location, lastJerk, hospitalInfo, timerRef, timers, listeners,
                  effectDeps, effectCleanup, pendingCaptures, runs, requests,
                  responses, incidents, starts, ticks, startedBy, safed, limits,
                  capturedIn, sent, pageVars, adminVars >>

\* the platform answers a getCurrentPosition of triggerSafetyCheck: with a fix,
\* or with an error, for which no callback was given
captureAnswer ==
  /\ ready
  /\ pendingCaptures > 0
  /\ pendingCaptures' = pendingCaptures - 1
  /\ \/ \E p \in limits.positions : location' = p /\ capturedIn' = starts
     \/ UNCHANGED << location, capturedIn >>
  /\ UNCHANGED << now, clockSteps, isMonitoring, showSafetyCheck, countdown,
                  lastJerk, emergencyTriggered, hospitalInfo, timerRef, timers,
                  listeners, effectDeps, effectCleanup, runs, requests, responses,
                  incidents, starts, ticks, startedBy, safed, limits,
                  sent, pageVars, adminVars >>

\* locationAnswer that posts the incident as soon as the fix is there, before
\* the hospital lookup
locationAnswerPostingFirst(i) ==
  /\ ready
  /\ runs[i].pc = "location"
  /\ \E p \in limits.positions :
       /\ runs' = [runs EXCEPT ![i].lat = p, ![i].pc = "hospitals"]
       /\ location' = p
       /\ requests' = requests \cup
            {[run |-> i, lat |-> p,
              details |-> detailsOf(runs[i].env.userName, p, << >>)]}
  /\ capturedIn' = starts
  /\ UNCHANGED << now, clockSteps, isMonitoring, showSafetyCheck, countdown,
                  lastJerk, emergencyTriggered, hospitalInfo, timerRef, timers,
                  listeners, effectDeps, effectCleanup, pendingCaptures,
                  responses, incidents, starts, ticks, startedBy, safed, limits,
                  sent, pageVars, adminVars >>

\* run i resumes after its own getCurrentPosition, which resolves on a fix only
locationAnswer(i) ==
  /\ ready
  /\ runs[i].pc = "location"
  /\ \E p \in limits.positions :
       /\ runs' = [runs EXCEPT ![i].lat = p, ![i].pc = "hospitals"]
       /\ location' = p
  /\ capturedIn' = starts
  /\ UNCHANGED << now, clockSteps, isMonitoring, showSafetyCheck, countdown,
                  lastJerk, emergencyTriggered, hospitalInfo, timerRef, timers,
                  listeners, effectDeps, effectCleanup, pendingCaptures, requests,
                  responses, incidents, starts, ticks, startedBy, safed, limits,
                  sent, pageVars, adminVars >>

\* the getCurrentPosition of run i fails and the promise is resolved with the
\* error, as in requestPermissions: the run goes on with the placeholder
locationErrorResolving(i) ==
  /\ ready
  /\ runs[i].pc = "location"
  /\ runs' = [runs EXCEPT ![i].pc = "hospitals"]
  /\ UNCHANGED << now, clockSteps, isMonitoring, showSafetyCheck, countdown,
                  location, lastJerk, emergencyTriggered, hospitalInfo, timerRef,
                  timers, listeners, effectDeps, effectCleanup, pendingCaptures,
                  requests, responses, incidents, starts, ticks, startedBy, safed,
                  limits, capturedIn, sent, pageVars, adminVars >>

\* the getCurrentPosition of run i fails: no error callback was given, so the
\* promise the run awaits is never resolved
locationError(i) ==
  /\ ready
  /\ runs[i].pc = "location"
  /\ runs' = [runs EXCEPT ![i].pc = "stalled"]
  /\ UNCHANGED << now, clockSteps, isMonitoring, showSafetyCheck, countdown,
                  location, lastJerk, emergencyTriggered, hospitalInfo, timerRef,
                  timers, listeners, effectDeps, effectCleanup, pendingCaptures,
                  requests, responses, incidents, starts, ticks, startedBy, safed,
                  limits, capturedIn, sent, pageVars, adminVars >>

\* run i resumes after findNearbyHospitals, formats its messages, writes them to
\* the console and posts the incident; an error of findNearbyHospitals ends it
hospitalAnswer(i) ==
  /\ ready
  /\ runs[i].pc = "hospitals"
  /\ \E r \in limits.lookups :
       LET result == findNearbyHospitals(r)
           name   == runs[i].env.userName
           lat    == runs[i].lat
       IN IF result.kind = "raised"
            THEN /\ runs' = [runs EXCEPT ![i].pc = "failed"]
                 /\ UNCHANGED << hospitalInfo, sent, requests >>
            ELSE /\ hospitalInfo' = result
                 /\ sent' = Append(sent,
                      [run |-> i,
                       sms |-> smsTo(runs[i].env.contacts, name, lat),
                       ambulance |-> ambulanceFor(result.links, name, lat)])
                 /\ requests' = requests \cup
                      {[run |-> i, lat |-> lat, details |-> detailsOf(name, lat, result.text)]}
                 /\ runs' = [runs EXCEPT ![i].pc = "post", ![i].result = result]
  /\ UNCHANGED << now, clockSteps, isMonitoring, showSafetyCheck, countdown,
                  location, lastJerk, emergencyTriggered, timerRef, timers,
                  listeners, effectDeps, effectCleanup, pendingCaptures, responses,
                  incidents, starts, ticks, startedBy, safed, limits,
                  capturedIn, pageVars, adminVars >>

\* part_000:157  the row the INSERT adds for the body of a request
rowOf(req) ==
  [lat |-> req.lat, details |-> req.details, status |-> "PENDING", run |-> req.run]

\* the handler with the INSERT run twice
postIncidentTwice(req) ==
  /\ req \in requests
  /\ requests' = requests \ {req}
  /\ incidents' = Append(Append(incidents, rowOf(req)), rowOf(req))
  /\ responses' = responses \cup {req.run}
  /\ UNCHANGED << now, clockSteps, isMonitoring, showSafetyCheck, countdown,
                  location, lastJerk, emergencyTriggered, hospitalInfo, timerRef,
                  timers, listeners, effectDeps, effectCleanup, pendingCaptures,
                  runs, starts, ticks, startedBy, safed, limits,
                  capturedIn, sent, pageVars, adminVars >>

\* the handler with an INSERT that leaves the details column out
postIncidentWithoutDetails(req) ==
  /\ req \in requests
  /\ requests' = requests \ {req}
  /\ incidents' = Append(incidents, [rowOf(req) EXCEPT !.details = << >>])
  /\ responses' = responses \cup {req.run}
  /\ UNCHANGED << now, clockSteps, isMonitoring, showSafetyCheck, countdown,
                  location, lastJerk, emergencyTriggered, hospitalInfo, timerRef,
                  timers, listeners, effectDeps, effectCleanup, pendingCaptures,
                  runs, starts, ticks, startedBy, safed, limits,
                  capturedIn, sent, pageVars, adminVars >>

\* the server handles a POST /api/incidents
postIncident(req) ==
  /\ req \in requests
  /\ requests' = requests \ {req}
  /\ incidents' = Append(incidents, rowOf(req))
  /\ responses' = responses \cup {req.run}
  /\ UNCHANGED << now, clockSteps, isMonitoring, showSafetyCheck, countdown,
                  location, lastJerk, emergencyTriggered, hospitalInfo, timerRef,
                  timers, listeners, effectDeps, effectCleanup, pendingCaptures,
                  runs, starts, ticks, startedBy, safed, limits,
                  capturedIn, sent, pageVars, adminVars >>

\* run i resumes after the fetch of the incident request and returns
postAnswer(i) ==
  /\ ready
  /\ i \in responses
  /\ responses' = responses \ {i}
  /\ runs' = [runs EXCEPT ![i].pc = "done"]
  /\ UNCHANGED << now, clockSteps, isMonitoring, showSafetyCheck, countdown,
                  location, lastJerk, emergencyTriggered, hospitalInfo, timerRef,
                  timers, listeners, effectDeps, effectCleanup, pendingCaptures,
                  requests, incidents, starts, ticks, startedBy, safed, limits,
                  capturedIn, sent, pageVars, adminVars >>

(* ------------------------------ the pages ------------------------------ *)
\* the answer to the fetchContacts of the mount effect arrives
fetchContactsAnswer ==
  /\ ready
  /\ contacts # contactsDb
  /\ contacts' = contactsDb
  /\ UNCHANGED << coreVars, view, userName, contactsDb, alertOpen, adminVars, limits >>

\* the name field of the user_login view changes
typeName(n) ==
  /\ ready /\ uncovered
  /\ view = "user_login"
  /\ userName # n
  /\ userName' = n
  /\ UNCHANGED << coreVars, view, contacts, contactsDb, alertOpen, adminVars, limits >>

\* the message of App.tsx:604
NameAlert == "Please enter a valid name (letters only)."

\* CONTINUE on the user_login view
submitName ==
  /\ ready /\ uncovered
  /\ view = "user_login"
  /\ IF ~lettersOnly(userName)
       THEN alertOpen' = NameAlert /\ UNCHANGED view
       ELSE /\ notBlank(userName)
            /\ view' = IF Len(contacts) = 0 THEN "contacts" ELSE "main"
            /\ UNCHANGED alertOpen
  /\ UNCHANGED << coreVars, userName, contacts, contactsDb, adminVars, limits >>

\* Continue to Dashboard on the contacts view, shown when there is a contact
continueToDashboard ==
  /\ ready /\ uncovered
  /\ view = "contacts"
  /\ Len(contacts) > 0
  /\ view' = "main"
  /\ UNCHANGED << coreVars, userName, contacts, contactsDb, alertOpen, adminVars, limits >>

\* the user dismisses the window.alert dialog
closeAlert ==
  /\ alertOpen # NoAlert
  /\ alertOpen' = NoAlert
  /\ UNCHANGED << coreVars, view, userName, contacts, contactsDb, adminVars, limits >>

(* ---------------------------- the admin gate --------------------------- *)
\* part_000:41-43  the seeded admin
AdminName == "Vigneshwaran v"
AdminPassword == "VICKY2007"
\* App.tsx:289
SecurityCode == "1249"
\* what is typed into the login form and the code field
Usernames == {AdminName, "guest"}
Passwords == {AdminPassword, "letmein"}
Codes == {SecurityCode, "0000"}

\* the mount effect of App.tsx:81-85 on a platform with window.PublicKeyCredential
detectBiometric ==
  /\ ready
  /\ ~isBiometricSupported
  /\ isBiometricSupported' = TRUE
  /\ UNCHANGED << coreVars, pageVars, isAdminAuthenticated, adminStep,
                  hasEnrolledFingerprint, adminUsername, securityCode, fingerprintDb,
                  scans, passed, limits >>

\* the logo, CANCEL on the login view, Settings on the main view
goLanding ==
  /\ ready /\ uncovered
  /\ view # "landing"
  /\ view' = "landing"
  /\ UNCHANGED << coreVars, userName, contacts, contactsDb, alertOpen, adminVars, limits >>

\* the lock button of the navigation bar
openAdmin ==
  /\ ready /\ uncovered
  /\ view' = IF isAdminAuthenticated THEN "admin" ELSE "login"
  /\ view' # view
  /\ UNCHANGED << coreVars, userName, contacts, contactsDb, alertOpen, adminVars, limits >>

\* part_000:59-69  POST /api/admin/login answers 200
loginAccepted(username, password) == username = AdminName /\ password = AdminPassword

\* NEXT STEP on the login form, with the answer of the server
handleAdminLogin(username, password) ==
  /\ ready /\ uncovered
  /\ view = "login" /\ adminStep = "1"
  /\ IF loginAccepted(username, password)
       THEN /\ adminUsername' = username
            /\ hasEnrolledFingerprint' = (fingerprintDb # NoFingerprint)
            /\ adminStep' = "2"
            /\ passed' = passed \cup {"password"}
            /\ UNCHANGED alertOpen
       ELSE /\ alertOpen' = "Invalid credentials"
            /\ UNCHANGED << adminUsername, hasEnrolledFingerprint, adminStep, passed >>
  /\ UNCHANGED << coreVars, view, userName, contacts, contactsDb, isAdminAuthenticated,
                  isBiometricSupported, securityCode, fingerprintDb, scans, limits >>

\* the code field changes
typeSecurityCode(code) ==
  /\ ready /\ uncovered
  /\ view = "login" /\ adminStep = "2"
  /\ securityCode # code
  /\ securityCode' = code
  /\ UNCHANGED << coreVars, pageVars, isAdminAuthenticated, adminStep,
                  isBiometricSupported, hasEnrolledFingerprint, adminUsername,
                  fingerprintDb, scans, passed, limits >>

\* AUTHORIZE ACCESS
verifySecurityCode ==
  /\ ready /\ uncovered
  /\ view = "login" /\ adminStep = "2"
  /\ IF securityCode = SecurityCode
       THEN /\ passed' = passed \cup {"code"}
            /\ UNCHANGED alertOpen
            /\ IF ~hasEnrolledFingerprint
                 THEN view' = "enroll_fingerprint" /\ UNCHANGED isAdminAuthenticated
                 ELSE isAdminAuthenticated' = TRUE /\ view' = "admin"
       ELSE /\ alertOpen' = "Invalid security code. Access denied."
            /\ UNCHANGED << passed, view, isAdminAuthenticated >>
  /\ UNCHANGED << coreVars, userName, contacts, contactsDb, adminStep,
                  isBiometricSupported, hasEnrolledFingerprint, adminUsername,
                  securityCode, fingerprintDb, scans, limits >>

\* BACK on the code step, Cancel on the scanning step
backToStepOne ==
  /\ ready /\ uncovered
  /\ view = "login" /\ adminStep # "1"
  /\ adminStep' = "1"
  /\ UNCHANGED << coreVars, pageVars, isAdminAuthenticated, isBiometricSupported,
                  hasEnrolledFingerprint, adminUsername, securityCode, fingerprintDb,
                  scans, passed, limits >>

\* adminStep during a scan of the given type
scanStep(type) == IF type = "fingerprint" THEN "biometric" ELSE "faceid"

\* the fingerprint and Face ID buttons of the login form
handleBiometricLogin(type) ==
  /\ ready /\ uncovered
  /\ view = "login" /\ adminStep = "1" /\ isBiometricSupported
  /\ IF ~hasEnrolledFingerprint /\ type = "fingerprint"
       THEN /\ alertOpen' = "No fingerprint enrolled. Please login with password first."
            /\ UNCHANGED << adminStep, scans >>
       ELSE /\ adminStep' = scanStep(type)
            /\ scans' = scans \cup
                 {[kind |-> "login", type |-> type,
                   username |-> IF adminUsername = "" THEN AdminName ELSE adminUsername]}
            /\ UNCHANGED alertOpen
  /\ UNCHANGED << coreVars, view, userName, contacts, contactsDb, isAdminAuthenticated,
                  isBiometricSupported, hasEnrolledFingerprint, adminUsername,
                  securityCode, fingerprintDb, passed, limits >>

\* part_000:77-85  POST /api/admin/verify-fingerprint answers 200
fingerprintAccepted(username, fingerprintId) ==
  username = AdminName /\ fingerprintDb = fingerprintId

\* the timeout of handleBiometricLogin fires, with the answer of the server
loginScanDone(scan) ==
  /\ ready
  /\ scan \in scans /\ scan.kind = "login"
  /\ scans' = scans \ {scan}
  /\ adminStep' = "1"
  /\ IF fingerprintAccepted(scan.username, BiometricId)
       THEN /\ isAdminAuthenticated' = TRUE
            /\ view' = "admin"
            /\ passed' = passed \cup {"biometric"}
            /\ UNCHANGED alertOpen
       ELSE /\ alertOpen' = IF scan.type = "fingerprint"
                              THEN "Wrong fingerprint. Access denied."
                              ELSE "Wrong face. Access denied."
            /\ UNCHANGED << isAdminAuthenticated, view, passed >>
  /\ UNCHANGED << coreVars, userName, contacts, contactsDb, isBiometricSupported,
                  hasEnrolledFingerprint, adminUsername, securityCode, fingerprintDb,
                  limits >>

\* FINGERPRINT and FACE ID on the enroll view
enrollBiometric(type) ==
  /\ ready /\ uncovered
  /\ view = "enroll_fingerprint" /\ adminStep \notin {"biometric", "faceid"}
  /\ adminStep' = scanStep(type)
  /\ scans' = scans \cup {[kind |-> "enroll", type |-> type, username |-> adminUsername]}
  /\ UNCHANGED << coreVars, pageVars, isAdminAuthenticated, isBiometricSupported,
                  hasEnrolledFingerprint, adminUsername, securityCode, fingerprintDb,
                  passed, limits >>

\* the timeout of enrollBiometric fires; part_000:71-75 stores the id
enrollScanDone(scan) ==
  /\ ready
  /\ scan \in scans /\ scan.kind = "enroll"
  /\ scans' = scans \ {scan}
  /\ fingerprintDb' = IF scan.username = AdminName THEN BiometricId ELSE fingerprintDb
  /\ hasEnrolledFingerprint' = TRUE
  /\ isAdminAuthenticated' = TRUE
  /\ view' = "admin"
  /\ adminStep' = "1"
  /\ passed' = passed \cup {"biometric"}
  /\ UNCHANGED << coreVars, userName, contacts, contactsDb, alertOpen,
                  isBiometricSupported, adminUsername, securityCode, limits >>

\* SKIP FOR NOW on the enroll view
skipEnroll ==
  /\ ready /\ uncovered
  /\ view = "enroll_fingerprint" /\ adminStep \notin {"biometric", "faceid"}
  /\ isAdminAuthenticated' = TRUE
  /\ view' = "admin"
  /\ UNCHANGED << coreVars, userName, contacts, contactsDb, alertOpen, adminStep,
                  isBiometricSupported, hasEnrolledFingerprint, adminUsername,
                  securityCode, fingerprintDb, scans, passed, limits >>

\* Logout on the dashboard
logout ==
  /\ ready /\ uncovered
  /\ view = "admin"
  /\ isAdminAuthenticated' = FALSE
  /\ view' = "landing"
  /\ UNCHANGED << coreVars, userName, contacts, contactsDb, alertOpen, adminStep,
                  isBiometricSupported, hasEnrolledFingerprint, adminUsername,
                  securityCode, fingerprintDb, scans, passed, limits >>

\* the admin gate and the navigation that leads to it
NextAdmin ==
  \/ detectBiometric
  \/ goLanding
  \/ openAdmin
  \/ \E username \in Usernames, password \in Passwords : handleAdminLogin(username, password)
  \/ \E code \in Codes : typeSecurityCode(code)
  \/ verifySecurityCode
  \/ backToStepOne
  \/ \E type \in {"fingerprint", "faceid"} : handleBiometricLogin(type)
  \/ \E scan \in scans : loginScanDone(scan)
  \/ \E type \in {"fingerprint", "faceid"} : enrollBiometric(type)
  \/ \E scan \in scans : enrollScanDone(scan)
  \/ skipEnroll
  \/ logout
  \/ closeAlert

\* detection by the sensor, countdown and escalation
Next ==
  \/ AdvanceClock
  \/ \E geo \in GeoAnswers, motion \in MotionAnswers :
       handleStartProtect(geo, motion)
  \/ jerkEffect
  \/ \E l \in listeners, acc \in Samples : handleMotion(l, acc)
  \/ \E t \in timers : tick(t)
  \/ handleIAmSafe
  \/ triggerNow
  \/ dismiss
  \/ captureAnswer
  \/ \E i \in 1..Len(runs) : locationAnswer(i)
  \/ \E i \in 1..Len(runs) : hospitalAnswer(i)
  \/ \E req \in requests : postIncident(req)
  \/ \E i \in responses : postAnswer(i)
  \/ closeAlert

\* the same, with the user's way through the pages and the test button
NextApp ==
  \/ \E geo \in GeoAnswers, motion \in MotionAnswers :
       handleStartProtect(geo, motion)
  \/ jerkEffect
  \/ \E l \in listeners, acc \in Samples : handleMotion(l, acc)
  \/ \E t \in timers : tick(t)
  \/ handleIAmSafe
  \/ triggerNow
  \/ dismiss
  \/ captureAnswer
  \/ \E i \in 1..Len(runs) : locationAnswer(i)
  \/ \E i \in 1..Len(runs) : hospitalAnswer(i)
  \/ \E req \in requests : postIncident(req)
  \/ \E i \in responses : postAnswer(i)
  \/ closeAlert
  \/ simulateAccident
  \/ fetchContactsAnswer
  \/ \E n \in limits.names : typeName(n)
  \/ submitName
  \/ continueToDashboard

\* detection, countdown and escalation, with a location fetch that may fail
NextFair ==
  \/ AdvanceClock
  \/ \E geo \in GeoAnswers, motion \in MotionAnswers :
       handleStartProtect(geo, motion)
  \/ jerkEffect
  \/ \E l \in listeners, acc \in Samples : handleMotion(l, acc)
  \/ \E t \in timers : tick(t)
  \/ handleIAmSafe
  \/ triggerNow
  \/ dismiss
  \/ captureAnswer
  \/ \E i \in 1..Len(runs) : locationAnswer(i)
  \/ \E i \in 1..Len(runs) : locationError(i)
  \/ \E i \in 1..Len(runs) : hospitalAnswer(i)
  \/ \E req \in requests : postIncident(req)
  \/ \E i \in responses : postAnswer(i)
  \/ closeAlert

\* what the platform guarantees: the interval keeps firing, effects run after
\* a render, and the lookup and the server answer; the geolocation requests
\* may never answer, and nothing is assumed of the user or the sensor
Fairness ==
  /\ WF_vars(\E t \in timers : tick(t))
  /\ WF_vars(jerkEffect)
  /\ WF_vars(\E i \in 1..Len(runs) : hospitalAnswer(i))
  /\ WF_vars(\E req \in requests : postIncident(req))
  /\ WF_vars(\E i \in responses : postAnswer(i))

Spec == Init /\ [][Next]_vars

SpecWide == InitWide /\ [][Next]_vars

SpecApp == InitApp /\ [][NextApp]_vars

SpecLong == InitLong /\ [][NextApp]_vars

SpecAdmin == InitAdmin /\ [][NextAdmin]_vars

SpecFair == InitFair /\ [][NextFair]_vars /\ Fairness

(* ------------------------------ claims --------------------------------- *)
\* the escalations invoked for countdown instance k
runsOf(k) == { i \in 1..Len(runs) : runs[i].inst = k }
\* the escalations that have not returned
inFlight == { i \in 1..Len(runs) : runs[i].pc # "done" }
\* a step in which handleMotion fired
JerkStep == starts' = starts + 1 /\ startedBy' = "jerk"

\* C1: any two jerk emissions are more than 5000 ms apart.  lastJerk is set by
\* an emission and by nothing else, so before a jerk step it holds the time of
\* the previous emission, if there was one.
JerksMoreThanCooldownApart ==
  [][(JerkStep /\ lastJerk # InitialLastJerk) => now' - lastJerk > JerkCooldown]_vars

\* what delivering acc to listener l does: it starts a safety check ...
Fires(l, acc) ==
  ENABLED (/\ handleMotion(l, acc)
           /\ starts' = starts + 1
           /\ showSafetyCheck' /\ countdown' = CountdownStart
           /\ lastJerk' = now
           /\ timerRef' = starts + 1 /\ timers' = {[id |-> starts + 1, env |-> l.env]})
\* ... or it changes nothing
Ignored(l, acc) == ENABLED (handleMotion(l, acc) /\ UNCHANGED vars)

\* the magnitude sqrt(ax^2 + ay^2 + az^2) of a sample is above 25 m/s^2
Over25(acc) ==
  /\ acc[4]
  /\ LET c(v) == IF v = Null THEN 0 ELSE v
     IN c(acc[1]) * c(acc[1]) + c(acc[2]) * c(acc[2]) + c(acc[3]) * c(acc[3]) > 625000000

Undisturbed ==
  /\ starts > 0
  /\ starts \notin safed
  /\ \A i \in runsOf(starts) : runs[i].src # "force"

\* C3: a countdown that is neither marked safe nor force-triggered shows
\* 60 - k after k < 60 ticks, is still showing and has not escalated; its 60th
\* tick expires it, stops its interval and invokes the escalation exactly once
CountdownExpiresAtSixtiethTick ==
  Undisturbed =>
    /\ ticks <= 60
    /\ ticks < 60 => /\ countdown = 60 - ticks
                     /\ showSafetyCheck
                     /\ runsOf(starts) = {}
                     /\ \E t \in timers : t.id = starts
    /\ ticks = 59 => countdown = 1
    /\ ticks = 60 => /\ countdown = 0
                     /\ ~showSafetyCheck
                     /\ Cardinality(runsOf(starts)) = 1
                     /\ \A i \in runsOf(starts) : runs[i].src = "expiry"
                     /\ timers = {}

\* C3 witness: the 60th tick of an undisturbed countdown has expired it
CountdownExpired ==
  /\ Undisturbed /\ ticks = 60 /\ countdown = 0
  /\ Cardinality(runsOf(starts)) = 1

\* C4: a countdown instance resolved by I AM SAFE is Idle from then on (until
\* the next countdown starts) and is never escalated
SafeNeverEscalates ==
  /\ starts \in safed => (~showSafetyCheck /\ timers = {})
  /\ \A k \in safed : runsOf(k) = {}

\* C4 witness: I AM SAFE was pressed at the last second, and later events followed
SafeAtLastSecond ==
  /\ safed = {1} /\ starts = 1 /\ countdown = 1 /\ ticks = 59
  /\ ~showSafetyCheck /\ location # NoLocation

\* C5: a jerk while a countdown is Counting leaves the counter unchanged
JerkWhileCountingKeepsCounter ==
  [][(showSafetyCheck /\ JerkStep) => countdown' = countdown]_vars

\* C6: at most one interval is active, and it is the one timerRef holds
AtMostOneInterval ==
  /\ Cardinality(timers) <= 1
  /\ \A t \in timers : t.id = timerRef

\* C6 witness: a countdown was started while the interval of the previous one
\* was running (the previous instance was neither marked safe nor escalated)
RestartedWhileRunning ==
  /\ starts = 2 /\ 1 \notin safed /\ runsOf(1) = {}
  /\ timers # {} /\ ticks > 0

\* C7: whenever the safety check is not showing, no interval is active
NoIntervalWhenIdle == ~showSafetyCheck => timers = {}

\* C8: the escalation is invoked at most once for each countdown instance
OneEscalationPerCountdown ==
  \A k \in 1..starts : Cardinality(runsOf(k)) <= 1

\* C9: at most one escalation is in flight
OneEscalationInFlight == Cardinality(inFlight) <= 1

\* the rows written for the request of run i
rowsOf(i) == { j \in 1..Len(incidents) : incidents[j].run = i }
\* the requests of run i not yet served
requestsOf(i) == { r \in requests : r.run = i }

\* C10: a run that reached the persistence step has issued exactly one
\* incident request, served or not, and an earlier run none; every row stems
\* from a run; so there are as many incidents as escalations whose request was
\* served: those that completed and those whose answer is on its way
OneIncidentPerEscalation ==
  /\ \A i \in 1..Len(runs) :
       Cardinality(rowsOf(i)) + Cardinality(requestsOf(i)) =
         IF runs[i].pc \in {"post", "done"} THEN 1 ELSE 0
  /\ \A j \in 1..Len(incidents) : incidents[j].run \in 1..Len(runs)
  /\ Len(incidents) =
       Cardinality({ i \in 1..Len(runs) : runs[i].pc = "done" }) + Cardinality(responses)
  /\ (inFlight = {}) => Len(incidents) = Len(runs)

\* C10 witness: an escalation has completed and its incident is stored
EscalationCompleted ==
  /\ Len(runs) = 1 /\ runs[1].pc = "done" /\ Len(incidents) = 1
  /\ incidents[1].status = "PENDING"

\* t occurs in s as a substring
Contains(s, t) ==
  \E k \in 0..(Len(s) - Len(t)) : SubSeq(s, k + 1, k + Len(t)) = t
\* the console entries of run i
sentBy(i) == { k \in 1..Len(sent) : sent[k].run = i }
\* run i got the answer the lookup gives when it failed
fellBack(i) ==
  runs[i].result.text = << "Could not retrieve hospital information due to an error." >>

\* C11: findNearbyHospitals returns a result for every outcome of the lookup,
\* and for a lookup that throws the text "Could not retrieve hospital
\* information due to an error." with no links; no escalation ends on an
\* error of it; an escalation that got the fallback has gone on to the
\* incident request, has asked once (one console entry, no links), and its
\* one request or stored row carries the fallback text
FallbackStillCreatesIncident ==
  /\ \A r \in Lookups : findNearbyHospitals(r).kind = "result"
  /\ findNearbyHospitals(Throws).text =
       << "Could not retrieve hospital information due to an error." >>
  /\ findNearbyHospitals(Throws).links = << >>
  /\ \A i \in 1..Len(runs) :
       /\ runs[i].pc # "failed"
       /\ fellBack(i) =>
            /\ runs[i].pc \in {"post", "done"}
            /\ runs[i].result.links = << >>
            /\ Cardinality(sentBy(i)) = 1
            /\ Cardinality(rowsOf(i)) + Cardinality(requestsOf(i)) = 1
            /\ runs[i].pc = "done" => Cardinality(rowsOf(i)) = 1
            /\ \A j \in rowsOf(i) : Contains(incidents[j].details, runs[i].result.text)
            /\ \A q \in requestsOf(i) : Contains(q.details, runs[i].result.text)

\* C11 witness: an escalation whose lookup threw has completed and its incident is stored
FallbackIncidentStored ==
  \E i \in 1..Len(runs) :
    /\ fellBack(i) /\ runs[i].pc = "done"
    /\ \E j \in rowsOf(i) :
         Contains(incidents[j].details,
                  << ". Nearby hospitals: ",
                     "Could not retrieve hospital information due to an error." >>)

\* C12: the details of every incident request contain the upper-cased user
\* name of its escalation followed by " IS IN EMERGENCY" (for the name asha,
\* "ASHA IS IN EMERGENCY"), and the title of every hospital link its lookup
\* returned
DetailsNameUserAndHospitals ==
  \A q \in requests :
    LET name  == runs[q.run].env.userName
        links == runs[q.run].result.links
    IN /\ Contains(q.details, toUpperCase(name) \o << " IS IN EMERGENCY" >>)
       /\ name = Asha => Contains(q.details, << "A", "S", "H", "A", " IS IN EMERGENCY" >>)
       /\ \A k \in 1..Len(links) : Contains(q.details, << links[k].title >>)

\* C13: an escalation works with the contact list as it is when it starts, and
\* when it writes its messages there is exactly one alert per contact,
\* addressed to the phone of that contact, and one ambulance request per
\* hospital link of its lookup result, whether or not the lists are empty,
\* and it goes on to the incident request
OneAlertPerContactAndLink ==
  [][/\ Len(runs') > Len(runs) => runs'[Len(runs')].env.contacts = contacts
     /\ Len(sent') > Len(sent) =>
          LET e     == sent'[Len(sent')]
              cs    == runs'[e.run].env.contacts
              links == runs'[e.run].result.links
          IN /\ Len(sent') = Len(sent) + 1
             /\ Len(e.sms) = Len(cs)
             /\ \A k \in 1..Len(cs) : e.sms[k].to = cs[k].phone
             /\ Len(e.ambulance) = Len(links)
             /\ \A k \in 1..Len(links) : e.ambulance[k].hospital = links[k].title
             /\ runs'[e.run].pc = "post"]_vars

\* C14: a run that has reached the hospital lookup or the incident request
\* carries the coordinates of a position fix, never the placeholder; a run
\* started without a captured location waits for its own fix; no request and
\* no stored incident carries the placeholder
NeverWithoutFix ==
  /\ \A i \in 1..Len(runs) :
       /\ runs[i].pc \in {"hospitals", "post", "done"} =>
            (runs[i].lat \in limits.positions /\ runs[i].lat # Placeholder)
       /\ (runs[i].env.location = NoLocation /\ runs[i].lat = Placeholder) =>
            runs[i].pc = "location"
  /\ \A q \in requests : q.lat \in limits.positions /\ q.lat # Placeholder
  /\ \A j \in 1..Len(incidents) :
       incidents[j].lat \in limits.positions /\ incidents[j].lat # Placeholder

\* C14 witness: an escalation that started without a captured location has
\* stored its incident with the coordinates of its own fix
OwnFixStored ==
  \E i \in 1..Len(runs) :
    /\ runs[i].env.location = NoLocation /\ runs[i].pc = "done"
    /\ \E j \in rowsOf(i) : incidents[j].lat \in limits.positions

\* C15: once location has been set during a countdown instance, no step
\* changes it until the next countdown starts
LocationKeptForCountdown ==
  [][(starts > 0 /\ capturedIn = starts /\ location # NoLocation /\ starts' = starts)
       => location' = location]_vars

\* C16: a START PROTECT whose motion permission request resolves to "denied"
\* or "default" returns false and shows the message; it leaves isMonitoring,
\* the subscribed handlers and the view as they are, so monitoring that was
\* off stays off with no handler subscribed
DeniedMotionStartsNothing ==
  [][\A geo \in GeoAnswers, motion \in {"denied", "default"} :
       handleStartProtect(geo, motion) =>
         /\ ~permissionGranted(geo, motion)
         /\ alertOpen' = "Motion sensor access is required for accident detection."
         /\ isMonitoring' = isMonitoring
         /\ listeners' = listeners
         /\ view' = view
         /\ ~isMonitoring => (~isMonitoring' /\ listeners' = {} /\ view' = "landing")]_vars

\* C16 witness: the motion permission was denied: the message is up, the
\* landing view is shown and nothing is monitored
MotionDeniedShown ==
  /\ alertOpen = "Motion sensor access is required for accident detection."
  /\ view = "landing" /\ ~isMonitoring /\ listeners = {} /\ effectDeps[1] = FALSE

\* C17: a START PROTECT whose geolocation request is denied or fails leaves
\* isMonitoring as it is and shows a message
DeniedLocationStartsNothing ==
  [][\A motion \in MotionAnswers :
       handleStartProtect("denied", motion) =>
         (isMonitoring' = isMonitoring /\ alertOpen' # NoAlert)]_vars

\* C18: at most one devicemotion handler is subscribed, none while
\* isMonitoring is false, and the one subscribed is the one the last run of
\* the effect added
OneMotionHandler ==
  /\ Cardinality(listeners) <= 1
  /\ ~isMonitoring => listeners = {}
  /\ listeners = effectCleanup

\* C18 witness: the effect has run again after a jerk, and one handler, which
\* reads the new lastJerk, is subscribed
Resubscribed ==
  /\ lastJerk # InitialLastJerk
  /\ effectDeps = << TRUE, lastJerk >>
  /\ \E l \in listeners : l.lastJerk = lastJerk

\* C19: every step leaves the stored incidents in place and adds at most
\* rows with status "PENDING" that carry the coordinates and details of a
\* request that was waiting; every stored incident has status "PENDING"
IncidentsPendingAndKept ==
  [][/\ Len(incidents') >= Len(incidents)
     /\ SubSeq(incidents', 1, Len(incidents)) = incidents
     /\ \A j \in (Len(incidents) + 1)..Len(incidents') :
          \E q \in requests :
            /\ q \notin requests'
            /\ incidents'[j].lat = q.lat
            /\ incidents'[j].details = q.details
     /\ \A j \in 1..Len(incidents') : incidents'[j].status = "PENDING"]_vars

\* C19 witness: a second incident has been stored after the first, each with
\* the coordinates and details its escalation sent
SecondIncidentStored ==
  /\ Len(incidents) = 2 /\ requests = {}
  /\ \A j \in 1..2 :
       /\ incidents[j].status = "PENDING"
       /\ incidents[j].lat = runs[incidents[j].run].lat
       /\ Contains(incidents[j].details, << "Emergency triggered for " >>)
       /\ Contains(incidents[j].details, runs[incidents[j].run].result.text)

\* C20: the dashboard is shown, and isAdminAuthenticated is true, only when
\* since the page was loaded the password check has succeeded, the entered
\* code has matched and a biometric scan has been accepted
DashboardBehindAllChecks ==
  (isAdminAuthenticated \/ view = "admin") =>
    {"password", "code", "biometric"} \subseteq passed

\* C21: the escalation started by a step, by expiry or by TRIGGER NOW, works
\* with the user name and the contact list as they are at that step; the
\* alerts it writes carry that name upper-cased and go to those contacts, and
\* the details of its incident request carry that name
NameAndContactsAsAtTrigger ==
  [][/\ Len(runs') > Len(runs) =>
          /\ runs'[Len(runs')].env.userName = userName
          /\ runs'[Len(runs')].env.contacts = contacts
     /\ Len(sent') > Len(sent) =>
          LET e    == sent'[Len(sent')]
              name == runs'[e.run].env.userName
              cs   == runs'[e.run].env.contacts
          IN /\ Len(e.sms) = Len(cs)
             /\ \A k \in 1..Len(cs) :
                  /\ e.sms[k].to = cs[k].phone
                  /\ Contains(e.sms[k].message,
                              toUpperCase(name) \o << " IS IN EMERGENCY" >>)
             /\ \A q \in requests' \ requests :
                  Contains(q.details, << "Emergency triggered for " >> \o name)]_vars

\* C22: an escalation that starts with coordinates takes them from the
\* location captured during the countdown instance it escalates, never from
\* one left over from an earlier countdown; an expiry that finds a capture
\* completed during its countdown uses that capture; otherwise the escalation
\* waits for a fix of its own
CoordinatesOfOwnCountdown ==
  [][Len(runs') > Len(runs) =>
       LET r == runs'[Len(runs')]
       IN /\ r.pc = "hospitals" =>
               (location # NoLocation /\ r.lat = location /\ capturedIn = r.inst)
          /\ (r.src = "expiry" /\ location # NoLocation /\ capturedIn = r.inst) =>
               (r.pc = "hospitals" /\ r.lat = location)
          /\ r.pc = "location" => r.lat = Placeholder]_vars

\* the step of run i the escalation is at before the step taken ("new": the
\* step invokes it)
stepBefore(i) == IF i <= Len(runs) THEN runs[i].pc ELSE "new"

\* C23: a run enters the hospital lookup only from its start or from its own
\* location fetch, and with coordinates of a position fix; from then on its
\* coordinates never change; it issues its incident request only in the step
\* that receives the lookup result, and the request carries the coordinates
\* the lookup was invoked with; no other step issues a request
LookupThenIncidentWithSameCoordinates ==
  [][/\ \A i \in 1..Len(runs') :
          /\ (runs'[i].pc = "hospitals" /\ stepBefore(i) # "hospitals") =>
               /\ stepBefore(i) \in {"new", "location"}
               /\ runs'[i].lat \in limits.positions
               /\ runs'[i].result = NoResult
               /\ requestsOf(i) = {} /\ rowsOf(i) = {}
          /\ (runs'[i].pc = "post" /\ stepBefore(i) # "post") =>
               /\ stepBefore(i) = "hospitals"
               /\ runs'[i].result.kind = "result"
               /\ requests' \ requests =
                    {[run |-> i, lat |-> runs[i].lat,
                      details |-> detailsOf(runs[i].env.userName, runs[i].lat,
                                            runs'[i].result.text)]}
          /\ stepBefore(i) \in {"hospitals", "post", "done"} =>
               runs'[i].lat = runs[i].lat
     /\ \A q \in requests' \ requests :
          /\ runs[q.run].pc = "hospitals" /\ runs'[q.run].pc = "post"
          /\ q.lat = runs[q.run].lat]_vars

\* C23 witness: a run that fetched its own location has received the lookup
\* result and its request, with the coordinates of that fix, is waiting
RequestAfterLookupWaiting ==
  \E i \in 1..Len(runs) :
    /\ runs[i].env.location = NoLocation /\ runs[i].pc = "post"
    /\ runs[i].result.kind = "result" /\ Len(runs[i].result.links) = 2
    /\ hospitalInfo = runs[i].result
    /\ \E q \in requests : q.run = i /\ q.lat = runs[i].lat /\ q.lat \in limits.positions

\* C24: the Emergency Triggered screen is showing only when the escalation
\* invoked last has issued its incident request
TriggeredShownAfterIncident ==
  emergencyTriggered =>
    /\ Len(runs) > 0
    /\ runs[Len(runs)].pc \in {"post", "done"}
    /\ Cardinality(rowsOf(Len(runs))) + Cardinality(requestsOf(Len(runs))) = 1

\* C25: a run that started without a captured location waits at its own
\* location fetch; only the arrival of a fix takes it on; after a failure of
\* the fetch it waits forever; while it waits, and after the failure, it has
\* not invoked the hospital lookup (no result, no message written) and no
\* incident request or row exists for it
StallsWithoutFix ==
  [][\A i \in 1..Len(runs) :
       /\ runs[i].pc = "stalled" => runs'[i].pc = "stalled"
       /\ (runs[i].pc = "location" /\ ~locationAnswer(i)) =>
            runs'[i].pc \in {"location", "stalled"}
       /\ runs'[i].pc \in {"location", "stalled"} =>
            /\ runs'[i].env.location = NoLocation
            /\ runs'[i].lat = Placeholder
            /\ runs'[i].result = NoResult
            /\ \A k \in 1..Len(sent') : sent'[k].run # i
            /\ \A q \in requests' : q.run # i
            /\ \A j \in 1..Len(incidents') : incidents'[j].run # i]_vars

\* C25 witness: the location fetch of the first escalation failed; a later
\* escalation has completed and stored its incident, and the first still waits
StalledWhileLaterCompleted ==
  /\ Len(runs) = 2 /\ runs[1].pc = "stalled" /\ runs[2].pc = "done"
  /\ Len(incidents) = 1 /\ incidents[1].run = 2
  /\ requests = {} /\ responses = {}

\* countdown instance k was marked safe, force-triggered or has expired
resolved(k) == k \in safed \/ runsOf(k) # {}

\* C26: under Fairness, every countdown instance that is showing is eventually
\* marked safe, force-triggered or expired (or is the current one when the
\* behaviour has no room left for an escalation), whatever becomes of its
\* location capture; and every escalation that waits for the hospital lookup
\* eventually issues its incident request
CountdownsExpireAndIncidentsIssued ==
  /\ \A k \in 1..(MaxActivations + 1) :
       (starts = k /\ showSafetyCheck) ~>
         (resolved(k) \/ (starts = k /\ ~withinBounds))
  /\ \A i \in 1..(MaxActivations + 1) :
       (Len(runs) >= i /\ runs[i].pc = "hospitals") ~>
         (/\ Len(runs) >= i
          /\ runs[i].pc \in {"post", "done"}
          /\ Cardinality(rowsOf(i)) + Cardinality(requestsOf(i)) = 1)

\* the next step of run i can be taken: the answer it waits for can arrive,
\* or its request can be served
canGoOn(i) ==
  /\ runs[i].pc = "location" => ENABLED locationAnswer(i)
  /\ runs[i].pc = "hospitals" => ENABLED hospitalAnswer(i)
  /\ runs[i].pc = "post" =>
       \/ \E q \in requestsOf(i) : ENABLED postIncident(q)
       \/ i \in responses /\ ENABLED postAnswer(i)

\* C27: DISMISS changes emergencyTriggered and nothing else: no escalation,
\* request, response or incident, no countdown, interval, location or
\* lastJerk; and while the screen is dismissed every escalation in flight can
\* take its next step, has written its messages and issued its request once
\* if it is past the lookup and not at all before
DismissLeavesEscalationAlone ==
  /\ [][dismiss =>
          /\ ~emergencyTriggered'
          /\ runs' = runs /\ requests' = requests /\ responses' = responses
          /\ incidents' = incidents /\ sent' = sent /\ hospitalInfo' = hospitalInfo
          /\ showSafetyCheck' = showSafetyCheck /\ countdown' = countdown
          /\ timerRef' = timerRef /\ timers' = timers /\ ticks' = ticks
          /\ pendingCaptures' = pendingCaptures
          /\ location' = location /\ lastJerk' = lastJerk]_vars
  /\ [](~emergencyTriggered =>
          \A i \in inFlight :
            /\ canGoOn(i)
            /\ Cardinality(sentBy(i)) = (IF runs[i].pc = "post" THEN 1 ELSE 0)
            /\ Cardinality(rowsOf(i)) + Cardinality(requestsOf(i)) =
                 (IF runs[i].pc = "post" THEN 1 ELSE 0))

\* C27 witness: the screen was dismissed while the escalation was in flight,
\* and the escalation has gone through its lookup and its incident is stored
DismissedInFlightAndStored ==
  /\ ~emergencyTriggered /\ ~showSafetyCheck
  /\ Len(runs) = 1 /\ runs[1].pc = "post" /\ 1 \in responses
  /\ Len(incidents) = 1 /\ incidents[1].run = 1 /\ Len(sent) = 1
====
